---- MODULE Spec2Model ----
(***************************************************************************)
(* The plugin pipeline executor of pkg/model/pipeline.go as a state        *)
(* machine.  Every goroutine is a process with a program counter named     *)
(* after the source line it is about to execute: the callers of Run, the   *)
(* callers of Stop, the two statistics updaters and the hot-update         *)
(* listener.  Shared fields of Pipeline are variables, locals of a call    *)
(* are fields of that call's frame.                                        *)
(***************************************************************************)
EXTENDS Integers, Sequences, FiniteSets, TLC

\* ---------------------------------------------------------------- bounds
\* calls made on the pipeline from outside: Run, Stop, a plugin replacement
\* by the registry, a failing registry lookup
MaxEvents == 3
\* capacity of the two statistics channels (1024 at lines 67-68)
ChanCap == 1
\* the reader pair: length of the input, largest buffer passed to a Read,
\* capacity of buffChan (10 at line 29 of the reader)
MaxInput == 4
MaxRead == 2
BuffChanCap == 2

\* ------------------------------------------------------------- processes
Runners == {"r1", "r2"}
Stoppers == {"s1", "s2"}
Updaters == {"pipelineAndTask", "plugin"}

\* p.conf.PluginNames(): a source plugin followed by a non-source plugin
PluginNames == <<"A", "B">>
NumPlugins == Len(PluginNames)
PluginType(name) == IF name = "A" THEN "Source" ELSE "NonSource"

VARIABLES
  started, stopped,                       \* Pipeline.started, Pipeline.stopped
  rerunCancel, stopCancel, scheduleCancel, \* the three cancel slots
  runningPluginName, runningPluginGeneration,
  pipelineAndTaskStatChan, pluginStatChan, \* buffered channels (sequences)
  pluginUpdateInfoChan,
  statUpdaterStop,                         \* TRUE once closed
  done,                                    \* TRUE once closed
  run,                                     \* frame of each caller of Run
  stop,                                    \* frame of each caller of Stop
  updater,                                 \* pc of each statistics updater
  listener,                                \* frame of cancelAndRerunRunningPlugin
  canceled,                                \* rerun wrappers of the task in flight that have fired
  generation,                              \* registry: current generation per plugin
  outstanding,                             \* records enqueued and not yet given to the sink
  panicked,                                \* an unrecovered panic ended the process
  events,                                  \* calls made from outside so far
  closed,                                  \* Close has closed the channels
  reader                                   \* the master/slave reader pair

vars == <<started, stopped, rerunCancel, stopCancel, scheduleCancel,
          runningPluginName, runningPluginGeneration,
          pipelineAndTaskStatChan, pluginStatChan, pluginUpdateInfoChan,
          statUpdaterStop, done, run, stop, updater, listener, canceled,
          generation, outstanding, panicked, events, closed, reader>>

\* the pipeline without the reader pair
pipelineVars == <<started, stopped, rerunCancel, stopCancel, scheduleCancel,
                  runningPluginName, runningPluginGeneration,
                  pipelineAndTaskStatChan, pluginStatChan, pluginUpdateInfoChan,
                  statUpdaterStop, done, run, stop, updater, listener, canceled,
                  generation, outstanding, panicked, events, closed>>

\* what no step of Run, of Stop, of the updaters or of the listener writes
restVars == <<closed, reader>>

slotVars == <<rerunCancel, stopCancel, scheduleCancel,
              runningPluginName, runningPluginGeneration>>
statVars == <<pipelineAndTaskStatChan, pluginStatChan, outstanding, updater,
              statUpdaterStop>>

\* ------------------------------------------------------------ cancelFunc
\* A cancelFunc value.  kind "noop" is NoOpCancelFunc; the others are the
\* closures built by Run (line 119) and runPlugin (lines 250, 261), which
\* capture the task (tid) and the runPlugin call (inv) whose locals they set.
\* name and gen record which plugin run the closure belongs to.
NoOpCancelFunc == [kind |-> "noop", tid |-> 0, inv |-> 0, name |-> "", gen |-> 0]
Closure(kind, tid, inv, name, gen) ==
  [kind |-> kind, tid |-> tid, inv |-> inv, name |-> name, gen |-> gen]

CancelReason(kind) ==
  CASE kind = "stop" -> "CanceledByPipelineStopped"
    [] kind = "schedule" -> "CanceledByPipelinePreempted"
    [] kind = "rerun" -> "CanceledByPluginUpdated"
    [] OTHER -> "nil"

\* ------------------------------------------------------------------ Task
NewTask(id) == [id |-> id, status |-> "Pending", err |-> "nil", code |-> "OK"]
NoTask == [id |-> 0, status |-> "Finished", err |-> "nil", code |-> "OK"]

TaskStart(t) == [t EXCEPT !.status = "Running"]

TaskSetError(t, e, c) ==
  IF t.status = "Finished" THEN t
  ELSE [t EXCEPT !.err = e, !.code = c,
                 !.status = IF @ \in {"Pending", "Running"}
                            THEN "ResponseImmediately" ELSE @]

TaskCancel(t, reason) ==
  IF t.status = "Finished" THEN t
  ELSE [t EXCEPT !.err = reason, !.code = reason, !.status = "Finishing"]

TaskFinish(t) == [t EXCEPT !.status = "Finished"]

TaskRecover(t) == [t EXCEPT !.status = "Running", !.err = "nil", !.code = "OK"]

TaskClearError(t, originalCode) ==
  IF t.status = "Finished" THEN t
  ELSE [t EXCEPT !.err = "nil", !.code = originalCode, !.status = "Running"]

\* ---------------------------------------------------------------- frames
IdleRun ==
  [pc |-> "idle", ret |-> "none", task |-> NoTask, i |-> 0,
   instance |-> "nil", pluginType |-> "none", gen |-> 0, inv |-> 0,
   preempted |-> FALSE,
   rpPreempted |-> FALSE, rpRerun |-> FALSE, originalCode |-> "OK",
   err |-> "nil", data |-> FALSE,
   \* history of this call, kept for the properties: the index and the outcome
   \* of the previous runPlugin call, what became of the current one's record
   \* and of the task's record, and whether a stop request landed in this call
   \* and inside instance.Run
   lastIdx |-> -1, lastRet |-> "none", stat |-> "none", pipeStat |-> "none",
   stopSeen |-> FALSE, stopHit |-> FALSE,
   \* the successful field of the two records, the use count this iteration
   \* holds on its instance, whether the instance was dismissed, and whether
   \* the rerun wrapper fired inside instance.Run
   statOk |-> "none", pipeOk |-> "none", uses |-> 0, dismissed |-> FALSE,
   rerunHit |-> FALSE]

IdleStop == [pc |-> "idle", scheduled |-> FALSE, f |-> NoOpCancelFunc, won |-> FALSE]

IdleListener == [pc |-> "L319", plugin |-> "", instanceGeneration |-> 0,
                 f |-> NoOpCancelFunc]

InFlightPcs == {"L117", "L126", "L128", "L134", "L246", "L270", "L273", "L278",
                "L289", "L294", "L314", "L149", "L173", "L185", "L190"}
InFlight(r) == run[r].pc \in InFlightPcs

\* the runPlugin call whose locals a closure captured is still on the stack
InRunPluginPcs == {"L270", "L273", "L278", "L289", "L294", "L314"}

PluginSet == {PluginNames[k] : k \in 1..NumPlugins}

\* ---------------------------------------------------- master/slave reader
\* newMasterSlaveReader(r): r is what the underlying reader still holds.
\* masterOut and slaveOut are the bytes the two Read methods have returned,
\* masterEOF and slaveEOF whether they have returned io.EOF.
newMasterSlaveReader(r) ==
  [r |-> r, buffChan |-> <<>>, chanClosed |-> FALSE, unreadBuff |-> <<>>,
   pc |-> "idle", buff |-> <<>>, err |-> "nil",
   masterOut |-> <<>>, masterEOF |-> FALSE, slaveOut |-> <<>>, slaveEOF |-> FALSE]

\* a finite input of n distinct bytes
Input(n) == [k \in 1..n |-> k]

Min(a, b) == IF a < b THEN a ELSE b

PipelineInit ==
  /\ started = 0 /\ stopped = 0
  /\ rerunCancel = NoOpCancelFunc
  /\ stopCancel = NoOpCancelFunc
  /\ scheduleCancel = NoOpCancelFunc
  /\ runningPluginName = "" /\ runningPluginGeneration = 0
  /\ pipelineAndTaskStatChan = <<>> /\ pluginStatChan = <<>>
  /\ pluginUpdateInfoChan = <<>>
  /\ statUpdaterStop = FALSE /\ done = FALSE
  /\ run = [r \in Runners |-> IdleRun]
  /\ stop = [s \in Stoppers |-> IdleStop]
  /\ updater = [u \in Updaters |-> "select"]
  /\ listener = IdleListener
  /\ canceled = {}
  /\ generation = [n \in PluginSet |-> 1]
  /\ outstanding = [u \in Updaters |-> 0]
  /\ panicked = FALSE
  /\ events = 0
  /\ closed = FALSE

Init == PipelineInit /\ reader = newMasterSlaveReader(<<>>)

\* ------------------------------------------------------------- identities
\* Tasks and runPlugin calls are told apart by a number; a new one takes the
\* least number no cancelFunc still held anywhere refers to.
Held == {rerunCancel, stopCancel, scheduleCancel, listener.f}
          \cup {stop[s].f : s \in Stoppers}
UsedTids == {f.tid : f \in Held} \cup {run[r].task.id : r \in Runners}
UsedInvs == {f.inv : f \in Held} \cup {run[r].inv : r \in Runners}
              \cup {w[3] : w \in canceled}
Fresh(used) == CHOOSE n \in 1..(Cardinality(used) + 1) :
                 n \notin used /\ \A m \in 1..(n - 1) : m \in used

\* ----------------------------------------------------- calling a cancelFunc
\* The first statement of the closures of lines 250-253 and 261-264: the
\* write to the captured local of the runPlugin call, if it is still running.
SetFlag(runs, f) ==
  [r \in Runners |->
     IF runs[r].inv = f.inv /\ f.inv # 0 /\ runs[r].pc \in InRunPluginPcs
     THEN IF f.kind = "schedule" THEN [runs[r] EXCEPT !.rpPreempted = TRUE]
          ELSE IF f.kind = "rerun" THEN [runs[r] EXCEPT !.rpRerun = TRUE]
          ELSE runs[r]
     ELSE runs[r]]

Wrapper(f) == <<f.kind, f.tid, f.inv>>

\* canceller(): idempotent; the first call marks the task the wrapper was
\* built over with the wrapper's reason.
FireCancel(runs, f) ==
  IF f.kind = "noop" \/ Wrapper(f) \in canceled THEN runs
  ELSE [r \in Runners |->
          IF runs[r].task.id = f.tid /\ runs[r].pc \in InFlightPcs
          THEN [runs[r] EXCEPT !.task = TaskCancel(@, CancelReason(f.kind))]
          ELSE runs[r]]

\* history: the rerun wrapper of a runPlugin call fired inside its instance.Run
MarkRerun(runs, f) ==
  [r \in Runners |->
     IF /\ f.kind = "rerun" /\ Wrapper(f) \notin canceled
        /\ runs[r].inv = f.inv /\ runs[r].pc = "L270"
     THEN [runs[r] EXCEPT !.rerunHit = TRUE]
     ELSE runs[r]]

\* only the listener calls a closure it may have called before
Fired(f) ==
  IF f.kind = "rerun" /\ \E r \in Runners : run[r].task.id = f.tid /\ InFlight(r)
  THEN canceled \cup {Wrapper(f)} ELSE canceled

\* ------------------------------------------------------------------- Run
\* line 109: atomic.LoadUint32(&p.stopped) == 1
NeverStopped(s) == FALSE
AlreadyStopped(s) == s = 1

\* atomic.CompareAndSwapUint32(&p.started, 0, 1) succeeds
CasStartedAlways(cur) == TRUE
CasStarted(cur) == cur = 0

\* A caller enters Run (the callers are interchangeable: r2 is the one that
\* calls while r1 is inside a call); line 109: pipeline is stopped before run
Run109(r) ==
  /\ ~panicked
  /\ UNCHANGED restVars
  /\ run[r].pc = "idle"
  /\ r = "r2" => run["r1"].pc # "idle"
  /\ events < MaxEvents
  /\ events' = events + 1
  /\ run' = [run EXCEPT ![r] =
               IF AlreadyStopped(stopped)
               THEN [IdleRun EXCEPT !.ret = "nil"]
               ELSE [IdleRun EXCEPT !.pc = "L113"]]
  /\ UNCHANGED <<started, stopped, slotVars, statVars, pluginUpdateInfoChan,
                 done, stop, listener, canceled, generation, panicked>>

\* line 113: CompareAndSwapUint32(&p.started, 0, 1)
Run113(r) ==
  /\ ~panicked
  /\ UNCHANGED restVars
  /\ run[r].pc = "L113"
  /\ IF CasStarted(started)
     THEN /\ started' = 1
          /\ run' = [run EXCEPT ![r].pc = "L117"]
     ELSE /\ started' = started
          /\ run' = [run EXCEPT ![r] =
                       [IdleRun EXCEPT !.ret = "pipeline is already started"]]
  /\ UNCHANGED <<stopped, slotVars, statVars, pluginUpdateInfoChan,
                 done, stop, listener, canceled, generation, panicked, events>>

\* lines 117-124: the task and its stop wrapper
Run117(r) ==
  /\ ~panicked
  /\ UNCHANGED restVars
  /\ run[r].pc = "L117"
  /\ LET id == Fresh(UsedTids) IN
       /\ stopCancel' = Closure("stop", id, 0, "", 0)
       /\ run' = [run EXCEPT ![r].task = NewTask(id), ![r].i = 0, ![r].pc = "L126"]
  /\ UNCHANGED <<started, stopped, rerunCancel, scheduleCancel, runningPluginName,
                 runningPluginGeneration, statVars, pluginUpdateInfoChan,
                 done, stop, listener, canceled, generation, panicked, events>>

\* line 126: the loop condition
LoopContinues(i, s) == i < NumPlugins /\ s = 0

Run126(r) ==
  /\ ~panicked
  /\ UNCHANGED restVars
  /\ run[r].pc = "L126"
  /\ run' = [run EXCEPT ![r].uses = 0,
                        ![r].pc = IF LoopContinues(run[r].i, stopped)
                                  THEN "L128" ELSE "L173"]
  /\ UNCHANGED <<started, stopped, slotVars, statVars, pluginUpdateInfoChan,
                 done, stop, listener, canceled, generation, panicked, events>>

\* lines 128-132: getPluginInstance(pluginNames[i], true), which may fail
Run128(r) ==
  /\ ~panicked
  /\ UNCHANGED restVars
  /\ run[r].pc = "L128"
  /\ LET name == PluginNames[run[r].i + 1] IN
       \/ /\ run' = [run EXCEPT ![r].instance = name,
                                ![r].pluginType = PluginType(name),
                                ![r].gen = generation[name],
                                ![r].uses = 1,
                                ![r].pc = "L134"]
          /\ events' = events
       \/ /\ events < MaxEvents
          /\ events' = events + 1
          /\ run' = [run EXCEPT ![r].instance = "nil",
                                ![r].pluginType = "none",
                                ![r].gen = 0,
                                ![r].task = TaskSetError(@, "EGet", "503"),
                                ![r].pc = "L134"]
  /\ UNCHANGED <<started, stopped, slotVars, statVars, pluginUpdateInfoChan,
                 done, stop, listener, canceled, generation, panicked>>

\* lines 134-139: the first status dispatch
EntersRunPlugin(status) == status \in {"Pending", "Running"}

Run134(r) ==
  /\ ~panicked
  /\ UNCHANGED restVars
  /\ run[r].pc = "L134"
  /\ run' = [run EXCEPT ![r] =
               CASE @.task.status = "Pending" ->
                      [@ EXCEPT !.task = TaskStart(@), !.pc = "L246"]
                 [] @.task.status = "Running" -> [@ EXCEPT !.pc = "L246"]
                 [] ~EntersRunPlugin(@.task.status) -> [@ EXCEPT !.pc = "L149"]]
  /\ UNCHANGED <<started, stopped, slotVars, statVars, pluginUpdateInfoChan,
                 done, stop, listener, canceled, generation, panicked, events>>

\* line 246: only a source plugin is given a preemption wrapper
PreemptibleAlways(pluginType) == TRUE
Preemptible(pluginType) == pluginType = "Source"

\* lines 246-267 of runPlugin: the cancel wrappers and the running-plugin slots.
\* instance.Name() on a missing instance is a nil dereference.
RunPlugin246(r) ==
  /\ ~panicked
  /\ UNCHANGED restVars
  /\ run[r].pc = "L246"
  /\ IF run[r].instance = "nil"
     THEN /\ panicked' = TRUE
          /\ run' = [run EXCEPT ![r].pc = "panic267"]
          /\ UNCHANGED slotVars
     ELSE LET f == run[r]
              inv == Fresh(UsedInvs) IN
          /\ panicked' = panicked
          /\ scheduleCancel' =
               IF Preemptible(f.pluginType)
               THEN Closure("schedule", f.task.id, inv, f.instance, f.gen)
               ELSE scheduleCancel
          /\ rerunCancel' = Closure("rerun", f.task.id, inv, f.instance, f.gen)
          /\ runningPluginGeneration' = f.gen
          /\ runningPluginName' = f.instance
          /\ stopCancel' = stopCancel
          /\ run' = [run EXCEPT ![r].inv = inv,
                                ![r].rpPreempted = FALSE,
                                ![r].rpRerun = FALSE,
                                ![r].originalCode = f.task.code,
                                ![r].err = "nil",
                                ![r].stat = "none",
                                ![r].statOk = "none",
                                ![r].rerunHit = FALSE,
                                ![r].pc = "L270"]
  /\ UNCHANGED <<started, stopped, statVars, pluginUpdateInfoChan,
                 done, stop, listener, canceled, generation, events>>

\* line 270: instance.Run(p.ctx, t) returns.  The plugin returns nil, returns
\* an error, or sets an error on the task and returns nil.
PluginOutcomes == {"nil", "err", "seterr", "seterr+err"}

PluginRun(r, outcome) ==
  /\ ~panicked
  /\ UNCHANGED restVars
  /\ run[r].pc = "L270"
  /\ run' = [run EXCEPT ![r].err = IF outcome \in {"err", "seterr+err"}
                                   THEN "E" ELSE "nil",
                        ![r].task = IF outcome \in {"seterr", "seterr+err"}
                                    THEN TaskSetError(@, "EPlugin", "400") ELSE @,
                        ![r].pc = "L273"]
  /\ UNCHANGED <<started, stopped, slotVars, statVars, pluginUpdateInfoChan,
                 done, stop, listener, canceled, generation, panicked, events>>

\* lines 273-274 without lines 275-276
RunPlugin273KeepsCancels(r) ==
  /\ ~panicked
  /\ UNCHANGED restVars
  /\ run[r].pc = "L273"
  /\ runningPluginName' = ""
  /\ runningPluginGeneration' = 0
  /\ run' = [run EXCEPT ![r].pc = "L278"]
  /\ UNCHANGED <<started, stopped, rerunCancel, scheduleCancel, stopCancel, statVars,
                 pluginUpdateInfoChan, done, stop, listener, canceled, generation,
                 panicked, events>>

\* lines 273-276: clear the running-plugin slots, reset both cancel slots
RunPlugin273(r) ==
  /\ ~panicked
  /\ UNCHANGED restVars
  /\ run[r].pc = "L273"
  /\ runningPluginName' = ""
  /\ runningPluginGeneration' = 0
  /\ rerunCancel' = NoOpCancelFunc
  /\ scheduleCancel' = NoOpCancelFunc
  /\ run' = [run EXCEPT ![r].pc = "L278"]
  /\ UNCHANGED <<started, stopped, stopCancel, statVars, pluginUpdateInfoChan,
                 done, stop, listener, canceled, generation, panicked, events>>

\* line 278: whether this plugin run is recorded
RecordsPluginStat(rerun, preempted, s) == ~rerun /\ ~preempted /\ s = 0

RunPlugin278(r) ==
  /\ ~panicked
  /\ UNCHANGED restVars
  /\ run[r].pc = "L278"
  /\ run' = [run EXCEPT ![r].data = RecordsPluginStat(run[r].rpRerun,
                                                      run[r].rpPreempted, stopped),
                        ![r].pc = "L289"]
  /\ UNCHANGED <<started, stopped, slotVars, statVars, pluginUpdateInfoChan,
                 done, stop, listener, canceled, generation, panicked, events>>

\* a non-blocking send (select with default): skip update if busy
OfferAlways(ch, rec) == Append(ch, rec)
Offer(ch, rec) == IF Len(ch) < ChanCap THEN Append(ch, rec) ELSE ch
OfferResult(ch) == IF Len(ch) < ChanCap THEN "enqueued" ELSE "dropped"

\* line 283: successful: err == nil && t.Error() == nil
Successful(err, taskErr) == err = "nil" /\ taskErr = "nil"

Ok(b) == IF b THEN "true" ELSE "false"

\* lines 279-292: the per-plugin record
RunPlugin289(r) ==
  /\ ~panicked
  /\ UNCHANGED restVars
  /\ run[r].pc = "L289"
  /\ IF run[r].data /\ closed
     THEN /\ panicked' = TRUE
          /\ run' = [run EXCEPT ![r].pc = "panic289"]
          /\ UNCHANGED <<pluginStatChan, outstanding>>
     ELSE IF run[r].data
     THEN /\ panicked' = panicked
          /\ pluginStatChan' =
               Offer(pluginStatChan,
                     [pluginName |-> run[r].instance,
                      successful |-> Successful(run[r].err, run[r].task.err)])
          /\ outstanding' = [outstanding EXCEPT !["plugin"] =
                               @ + Len(pluginStatChan') - Len(pluginStatChan)]
          /\ run' = [run EXCEPT ![r].stat = OfferResult(pluginStatChan),
                                ![r].statOk = Ok(Successful(run[r].err, run[r].task.err)),
                                ![r].data = FALSE,
                                ![r].pc = "L294"]
     ELSE /\ panicked' = panicked
          /\ pluginStatChan' = pluginStatChan
          /\ outstanding' = outstanding
          /\ run' = [run EXCEPT ![r].pc = "L294"]
  /\ UNCHANGED <<started, stopped, slotVars, pipelineAndTaskStatChan, updater,
                 statUpdaterStop, pluginUpdateInfoChan,
                 done, stop, listener, canceled, generation, events>>

\* lines 298-305: the plugin's error is attached unless the task has one
AttachesAlways(preempted, taskErr) == ~preempted
Attaches(preempted, taskErr) == ~preempted /\ taskErr = "nil"

\* line 308: the instance is dismissed
Dismisses(err, preempted, s) == err # "nil" /\ s = 0 /\ ~preempted

\* lines 294-312: the plugin's error; dismissPluginInstance takes one use off
\* the instance and marks it unusable
RunPlugin294(r) ==
  /\ ~panicked
  /\ UNCHANGED restVars
  /\ run[r].pc = "L294"
  /\ LET f == run[r]
         gone == Dismisses(f.err, f.rpPreempted, stopped) IN
     run' = [run EXCEPT ![r].task =
                          IF f.err = "nil" THEN @
                          ELSE IF f.rpRerun THEN TaskClearError(@, f.originalCode)
                          ELSE IF Attaches(f.rpPreempted, @.err)
                               THEN TaskSetError(@, f.err, "503")
                          ELSE @,
                        ![r].dismissed = gone,
                        ![r].uses = IF gone THEN @ - 1 ELSE @,
                        ![r].pc = "L314"]
  /\ UNCHANGED <<started, stopped, slotVars, statVars, pluginUpdateInfoChan,
                 done, stop, listener, canceled, generation, panicked, events>>

\* line 314 and lines 139-147: runPlugin returns, the instance is released,
\* and a rerun re-enters the same index
RerunsOnFlag(success, rerun) == rerun
Reruns(success, rerun) == ~success /\ rerun

RunPlugin314(r) ==
  /\ ~panicked
  /\ UNCHANGED restVars
  /\ run[r].pc = "L314"
  /\ LET f == run[r]
         success == f.err = "nil"
         rerun == f.rpRerun IN
     run' = [run EXCEPT ![r].preempted = f.rpPreempted,
                        ![r].inv = 0,
                        ![r].rpPreempted = FALSE,
                        ![r].rpRerun = FALSE,
                        ![r].err = "nil",
                        ![r].originalCode = IF f.rerunHit THEN @ ELSE "OK",
                        ![r].pluginType = "none",
                        ![r].gen = 0,
                        ![r].stat = "none",
                        ![r].statOk = "none",
                        ![r].dismissed = FALSE,
                        ![r].uses = @ - 1,
                        ![r].lastIdx = f.i,
                        ![r].lastRet = IF f.err # "nil" /\ f.rpRerun THEN "rerun" ELSE "other",
                        ![r].pc = IF Reruns(success, rerun) THEN "L126" ELSE "L149"]
  /\ UNCHANGED <<started, stopped, slotVars, statVars, pluginUpdateInfoChan,
                 done, stop, listener, canceled, generation, panicked, events>>

\* line 157: recovery needs the instance
HasInstanceAlways(instance) == TRUE
HasInstance(instance) == instance # "nil"

\* lines 149-171: the second status dispatch, then i++
Run149(r, recovered) ==
  /\ ~panicked
  /\ UNCHANGED restVars
  /\ run[r].pc = "L149"
  /\ LET f == run[r]
         t == CASE f.task.status = "ResponseImmediately" ->
                     IF stopped = 1 THEN TaskFinish(f.task)
                     ELSE IF HasInstance(f.instance)
                          THEN IF recovered THEN TaskRecover(f.task)
                               ELSE TaskFinish(f.task)
                     ELSE f.task
                [] f.task.status = "Finishing" -> TaskFinish(f.task)
                [] OTHER -> f.task IN
     /\ recovered => (f.task.status = "ResponseImmediately" /\ stopped = 0
                      /\ HasInstance(f.instance))
     /\ run' = [run EXCEPT ![r].task = t,
                           ![r].instance = "nil",
                           ![r].i = IF t.status = "Finished" THEN @ ELSE @ + 1,
                           ![r].pc = IF t.status = "Finished" THEN "L173" ELSE "L126"]
  /\ UNCHANGED <<started, stopped, slotVars, statVars, pluginUpdateInfoChan,
                 done, stop, listener, canceled, generation, panicked, events>>

\* lines 173-177: the task is finished; whether it is recorded
RecordsPipelineStat(preempted, s) == ~preempted /\ s = 0

Run173(r) ==
  /\ ~panicked
  /\ UNCHANGED restVars
  /\ run[r].pc = "L173"
  /\ run' = [run EXCEPT ![r].task = IF @.status # "Finished" THEN TaskFinish(@) ELSE @,
                        ![r].data = RecordsPipelineStat(run[r].preempted, stopped),
                        ![r].uses = 0,
                        ![r].pc = "L185"]
  /\ UNCHANGED <<started, stopped, slotVars, statVars, pluginUpdateInfoChan,
                 done, stop, listener, canceled, generation, panicked, events>>

\* line 190 follows the record: the record is offered after the loop
AfterPipelineStatInLoop == "L126"
AfterPipelineStat == "L190"

\* lines 178-187: the pipeline/task record
Run185(r) ==
  /\ ~panicked
  /\ UNCHANGED restVars
  /\ run[r].pc = "L185"
  /\ IF run[r].data /\ closed
     THEN /\ panicked' = TRUE
          /\ run' = [run EXCEPT ![r].pc = "panic185"]
          /\ UNCHANGED <<pipelineAndTaskStatChan, outstanding>>
     ELSE IF run[r].data
     THEN /\ panicked' = panicked
          /\ pipelineAndTaskStatChan' =
               Offer(pipelineAndTaskStatChan, [successful |-> run[r].task.err = "nil"])
          /\ outstanding' = [outstanding EXCEPT !["pipelineAndTask"] =
                               @ + Len(pipelineAndTaskStatChan')
                                 - Len(pipelineAndTaskStatChan)]
          /\ run' = [run EXCEPT ![r].pipeStat = OfferResult(pipelineAndTaskStatChan),
                                ![r].pipeOk = Ok(run[r].task.err = "nil"),
                                ![r].data = FALSE,
                                ![r].pc = AfterPipelineStat]
     ELSE /\ panicked' = panicked
          /\ pipelineAndTaskStatChan' = pipelineAndTaskStatChan
          /\ outstanding' = outstanding
          /\ run' = [run EXCEPT ![r].pc = AfterPipelineStat]
  /\ UNCHANGED <<started, stopped, slotVars, pluginStatChan, updater,
                 statUpdaterStop, pluginUpdateInfoChan,
                 done, stop, listener, canceled, generation, events>>

\* line 190: atomic.StoreUint32(&p.started, 0)
Run190(r) ==
  /\ ~panicked
  /\ UNCHANGED restVars
  /\ run[r].pc = "L190"
  /\ started' = 0
  /\ run' = [run EXCEPT ![r].pc = "L192"]
  /\ UNCHANGED <<stopped, slotVars, statVars, pluginUpdateInfoChan,
                 done, stop, listener, canceled, generation, panicked, events>>

\* lines 192-196: close(p.done) when stopped; closing a closed channel panics
Run192(r) ==
  /\ ~panicked
  /\ UNCHANGED restVars
  /\ run[r].pc = "L192"
  /\ IF stopped = 1 /\ done
     THEN /\ panicked' = TRUE
          /\ run' = [run EXCEPT ![r].pc = "panic193"]
          /\ UNCHANGED <<done, canceled>>
     ELSE /\ panicked' = panicked
          /\ done' = (done \/ stopped = 1)
          /\ run' = [run EXCEPT ![r] = [IdleRun EXCEPT !.ret = "nil"]]
          /\ canceled' = {w \in canceled : w[2] # run[r].task.id}
  /\ UNCHANGED <<started, stopped, slotVars, statVars, pluginUpdateInfoChan,
                 stop, listener, generation, events>>

RunStep(r) ==
  \/ Run109(r) \/ Run113(r) \/ Run117(r) \/ Run126(r) \/ Run128(r)
  \/ Run134(r) \/ RunPlugin246(r) \/ (\E o \in PluginOutcomes : PluginRun(r, o))
  \/ RunPlugin273(r) \/ RunPlugin278(r) \/ RunPlugin289(r) \/ RunPlugin294(r)
  \/ RunPlugin314(r) \/ (\E b \in BOOLEAN : Run149(r, b)) \/ Run173(r)
  \/ Run185(r) \/ Run190(r) \/ Run192(r)

\* ------------------------------------------------------------------ Stop
\* history: which Run call, and which plugin run, a stop request landed in
MarkStop(runs) ==
  [r \in Runners |->
     IF runs[r].pc \in InFlightPcs
     THEN [runs[r] EXCEPT !.stopSeen = TRUE, !.stopHit = (runs[r].pc = "L270")]
     ELSE runs[r]]

\* atomic.CompareAndSwapUint32(&p.stopped, 0, 1) succeeds
CasStopped(cur) == cur = 0

\* A caller enters Stop(scheduled) (s2 is the one that calls second); line 209:
\* CompareAndSwapUint32(&p.stopped, 0, 1), already stopped returns
Stop209(s, scheduled) ==
  /\ ~panicked
  /\ UNCHANGED restVars
  /\ stop[s].pc = "idle"
  /\ s = "s2" => stop["s1"].pc # "idle"
  /\ events < MaxEvents
  /\ events' = events + 1
  /\ IF CasStopped(stopped)
     THEN /\ stopped' = 1
          /\ stop' = [stop EXCEPT ![s] = [IdleStop EXCEPT !.pc = "L219", !.won = TRUE,
                                                          !.scheduled = scheduled]]
          /\ run' = MarkStop(run)
     ELSE /\ stopped' = stopped
          /\ stop' = [stop EXCEPT ![s] = [IdleStop EXCEPT !.pc = "returned"]]
          /\ run' = run
  /\ UNCHANGED <<started, slotVars, statVars, pluginUpdateInfoChan,
                 done, listener, canceled, generation, panicked>>

\* lines 219-223: the cancel slot is read and called.  NoOpCancelFunc does
\* nothing and the stop wrapper's cancel has no flag to set, so the call is
\* over, or at its canceller(), in the same step.
StopSlot(scheduled) == IF scheduled THEN scheduleCancel ELSE stopCancel

Stop219(s) ==
  /\ ~panicked
  /\ UNCHANGED restVars
  /\ stop[s].pc = "L219"
  /\ LET f == StopSlot(stop[s].scheduled) IN
     stop' = [stop EXCEPT ![s].f = IF f.kind = "noop" THEN NoOpCancelFunc ELSE f,
                          ![s].scheduled = FALSE,
                          ![s].pc = CASE f.kind = "schedule" -> "call"
                                      [] f.kind = "stop" -> "cancel"
                                      [] OTHER -> "L226"]
  /\ UNCHANGED <<started, stopped, slotVars, statVars, pluginUpdateInfoChan,
                 done, run, listener, canceled, generation, panicked, events>>

\* the closure of lines 250-253: preempted = true (line 251) ...
StopCallFlag(s) ==
  /\ ~panicked
  /\ UNCHANGED restVars
  /\ stop[s].pc = "call"
  /\ run' = SetFlag(run, stop[s].f)
  /\ stop' = [stop EXCEPT ![s].pc = "cancel"]
  /\ UNCHANGED <<started, stopped, slotVars, statVars, pluginUpdateInfoChan,
                 done, listener, canceled, generation, panicked, events>>

\* ... then canceller() (line 252), or the stop wrapper's cancel itself
StopCallCancel(s) ==
  /\ ~panicked
  /\ UNCHANGED restVars
  /\ stop[s].pc = "cancel"
  /\ run' = FireCancel(run, stop[s].f)
  /\ stop' = [stop EXCEPT ![s].f = NoOpCancelFunc, ![s].pc = "L226"]
  /\ UNCHANGED <<started, stopped, slotVars, statVars, pluginUpdateInfoChan,
                 done, listener, canceled, generation, panicked, events>>

\* line 226: wait for Run only if one is in flight
StopWaits(st) == st = 1

Stop226(s) ==
  /\ ~panicked
  /\ UNCHANGED restVars
  /\ stop[s].pc = "L226"
  /\ stop' = [stop EXCEPT ![s].pc = IF StopWaits(started) THEN "L228" ELSE "L232"]
  /\ UNCHANGED <<started, stopped, slotVars, statVars, pluginUpdateInfoChan,
                 done, run, listener, canceled, generation, panicked, events>>

\* line 228: <-p.done
Stop228(s) ==
  /\ ~panicked
  /\ UNCHANGED restVars
  /\ stop[s].pc = "L228"
  /\ done
  /\ stop' = [stop EXCEPT ![s].pc = "L232"]
  /\ UNCHANGED <<started, stopped, slotVars, statVars, pluginUpdateInfoChan,
                 done, run, listener, canceled, generation, panicked, events>>

\* line 232: close(p.statUpdaterStop)
Stop232(s) ==
  /\ ~panicked
  /\ UNCHANGED restVars
  /\ stop[s].pc = "L232"
  /\ IF statUpdaterStop
     THEN /\ panicked' = TRUE
          /\ statUpdaterStop' = statUpdaterStop
          /\ stop' = [stop EXCEPT ![s].pc = "panic232"]
     ELSE /\ panicked' = panicked
          /\ statUpdaterStop' = TRUE
          /\ stop' = [stop EXCEPT ![s].pc = "L235"]
  /\ UNCHANGED <<started, stopped, slotVars, pipelineAndTaskStatChan, pluginStatChan,
                 outstanding, updater, pluginUpdateInfoChan,
                 done, run, listener, canceled, generation, events>>

\* lines 235-236 with lines 377 and 415: statUpdaterDone is unbuffered, so each
\* receive of Stop is one step with the send of an updater
StopAck(s, u) ==
  /\ ~panicked
  /\ UNCHANGED restVars
  /\ stop[s].pc \in {"L235", "L236"}
  /\ updater[u] = "ack"
  /\ updater' = [updater EXCEPT ![u] = "exited"]
  /\ stop' = [stop EXCEPT ![s].pc = IF @ = "L235" THEN "L236" ELSE "returned"]
  /\ UNCHANGED <<started, stopped, slotVars, pipelineAndTaskStatChan, pluginStatChan,
                 outstanding, statUpdaterStop, pluginUpdateInfoChan,
                 done, run, listener, canceled, generation, panicked, events>>

StopStep(s) ==
  \/ (\E b \in BOOLEAN : Stop209(s, b)) \/ Stop219(s)
  \/ StopCallFlag(s) \/ StopCallCancel(s) \/ Stop226(s) \/ Stop228(s)
  \/ Stop232(s) \/ (\E u \in Updaters : StopAck(s, u))

\* ------------------------------------------------------ statistics updaters
StatChan(u) == IF u = "pipelineAndTask" THEN pipelineAndTaskStatChan ELSE pluginStatChan

\* data := <-chan; p.updatePipelineAndTaskStat(data) / p.updatePluginStat(data)
Receive(u) ==
  /\ StatChan(u) # <<>>
  /\ outstanding' = [outstanding EXCEPT ![u] = @ - 1]
  /\ IF u = "pipelineAndTask"
     THEN /\ pipelineAndTaskStatChan' = Tail(pipelineAndTaskStatChan)
          /\ pluginStatChan' = pluginStatChan
     ELSE /\ pluginStatChan' = Tail(pluginStatChan)
          /\ pipelineAndTaskStatChan' = pipelineAndTaskStatChan

\* lines 373-374 and 411-412: a record is received and handed to the sink
UpdaterData(u) ==
  /\ ~panicked
  /\ UNCHANGED restVars
  /\ updater[u] = "select"
  /\ Receive(u)
  /\ UNCHANGED <<started, stopped, slotVars, updater, statUpdaterStop,
                 pluginUpdateInfoChan, done, run, stop, listener, canceled,
                 generation, panicked, events>>

\* lines 375 and 413: the stop case of the select
UpdaterStop(u) ==
  /\ ~panicked
  /\ UNCHANGED restVars
  /\ updater[u] = "select"
  /\ statUpdaterStop
  /\ updater' = [updater EXCEPT ![u] = "drain"]
  /\ UNCHANGED <<started, stopped, slotVars, pipelineAndTaskStatChan, pluginStatChan,
                 outstanding, statUpdaterStop, pluginUpdateInfoChan, done, run, stop,
                 listener, canceled, generation, panicked, events>>

\* drainPipelineAndTaskStatData / drainPluginStatData: one record
UpdaterDrain(u) ==
  /\ ~panicked
  /\ UNCHANGED restVars
  /\ updater[u] = "drain"
  /\ Receive(u)
  /\ UNCHANGED <<started, stopped, slotVars, updater, statUpdaterStop,
                 pluginUpdateInfoChan, done, run, stop, listener, canceled,
                 generation, panicked, events>>

\* the default case of the drain loop: the channel is empty
UpdaterDrained(u) ==
  /\ ~panicked
  /\ UNCHANGED restVars
  /\ updater[u] = "drain"
  /\ StatChan(u) = <<>>
  /\ updater' = [updater EXCEPT ![u] = "ack"]
  /\ UNCHANGED <<started, stopped, slotVars, pipelineAndTaskStatChan, pluginStatChan,
                 outstanding, statUpdaterStop, pluginUpdateInfoChan, done, run, stop,
                 listener, canceled, generation, panicked, events>>

UpdaterStep(u) ==
  \/ UpdaterData(u) \/ UpdaterStop(u) \/ UpdaterDrain(u) \/ UpdaterDrained(u)

\* ------------------------------------------------------ hot-update listener
\* The registry replaces a plugin: the generation advances and a notice with
\* the superseded generation is sent on pluginUpdateInfoChan.
HotUpdate(name) ==
  /\ ~panicked
  /\ UNCHANGED restVars
  /\ ~closed
  /\ events < MaxEvents
  /\ events' = events + 1
  /\ generation' = [generation EXCEPT ![name] = @ + 1]
  /\ pluginUpdateInfoChan' =
       Append(pluginUpdateInfoChan,
              [plugin |-> name, instanceGeneration |-> generation[name]])
  /\ UNCHANGED <<started, stopped, slotVars, statVars, done, run, stop,
                 listener, canceled, panicked>>

\* line 319: info, ok := <-p.pluginUpdateInfoChan
Listener319 ==
  /\ ~panicked
  /\ UNCHANGED restVars
  /\ listener.pc = "L319"
  /\ pluginUpdateInfoChan # <<>>
  /\ listener' = [listener EXCEPT !.plugin = Head(pluginUpdateInfoChan).plugin,
                    !.instanceGeneration = Head(pluginUpdateInfoChan).instanceGeneration,
                    !.pc = "L327"]
  /\ pluginUpdateInfoChan' = Tail(pluginUpdateInfoChan)
  /\ UNCHANGED <<started, stopped, slotVars, statVars, done, run, stop,
                 canceled, generation, panicked, events>>

\* line 327: the running plugin's name is read
Listener327 ==
  /\ ~panicked
  /\ UNCHANGED restVars
  /\ listener.pc = "L327"
  /\ listener' = IF runningPluginName # listener.plugin
                 THEN IdleListener
                 ELSE [listener EXCEPT !.pc = "L328"]
  /\ UNCHANGED <<started, stopped, slotVars, statVars, pluginUpdateInfoChan, done,
                 run, stop, canceled, generation, panicked, events>>

\* line 328: the running plugin's generation is read
Stale(running, updated) == running <= updated

Listener328 ==
  /\ ~panicked
  /\ UNCHANGED restVars
  /\ listener.pc = "L328"
  /\ listener' = IF ~Stale(runningPluginGeneration, listener.instanceGeneration)
                 THEN IdleListener
                 ELSE [listener EXCEPT !.pc = "L336"]
  /\ UNCHANGED <<started, stopped, slotVars, statVars, pluginUpdateInfoChan, done,
                 run, stop, canceled, generation, panicked, events>>

\* line 336: p.rerunCancel is read; calling NoOpCancelFunc does nothing ...
Listener336 ==
  /\ ~panicked
  /\ UNCHANGED restVars
  /\ listener.pc = "L336"
  /\ listener' = IF rerunCancel.kind = "noop" THEN IdleListener
                 ELSE [listener EXCEPT !.f = rerunCancel, !.pc = "call"]
  /\ UNCHANGED <<started, stopped, slotVars, statVars, pluginUpdateInfoChan, done,
                 run, stop, canceled, generation, panicked, events>>

\* ... the closure of lines 261-264: rerun = true (line 262) ...
ListenerCallFlag ==
  /\ ~panicked
  /\ UNCHANGED restVars
  /\ listener.pc = "call"
  /\ run' = SetFlag(run, listener.f)
  /\ listener' = [listener EXCEPT !.pc = "cancel"]
  /\ UNCHANGED <<started, stopped, slotVars, statVars, pluginUpdateInfoChan, done,
                 stop, canceled, generation, panicked, events>>

\* ... then canceller() (line 263)
ListenerCallCancel ==
  /\ ~panicked
  /\ UNCHANGED restVars
  /\ listener.pc = "cancel"
  /\ run' = MarkRerun(FireCancel(run, listener.f), listener.f)
  /\ canceled' = Fired(listener.f)
  /\ listener' = IdleListener
  /\ UNCHANGED <<started, stopped, slotVars, statVars, pluginUpdateInfoChan, done,
                 stop, generation, panicked, events>>

\* lines 320-322: pluginUpdateInfoChan is closed and empty, the loop ends
ListenerExit ==
  /\ ~panicked
  /\ UNCHANGED restVars
  /\ listener.pc = "L319"
  /\ pluginUpdateInfoChan = <<>>
  /\ closed
  /\ listener' = [IdleListener EXCEPT !.pc = "exited"]
  /\ UNCHANGED <<started, stopped, slotVars, statVars, pluginUpdateInfoChan, done,
                 run, stop, canceled, generation, panicked, events>>

ListenerStep ==
  \/ Listener319 \/ Listener327 \/ Listener328 \/ Listener336
  \/ ListenerCallFlag \/ ListenerCallCancel \/ ListenerExit

\* ----------------------------------------------------------------- Close
\* lines 199-206, called once and only after the Stop call that stopped the
\* pipeline has returned (both updaters have exited by then, so the closed
\* statUpdaterDone and statistics channels have no receiver or sender left
\* but a Run call).  common.CloseChan(p.done) closes done unless it is closed.
Close ==
  /\ ~panicked
  /\ ~closed
  /\ \E s \in Stoppers : stop[s].won /\ stop[s].pc = "returned"
  /\ events < MaxEvents
  /\ events' = events + 1
  /\ closed' = TRUE
  /\ done' = TRUE
  /\ UNCHANGED <<started, stopped, slotVars, statVars, pluginUpdateInfoChan,
                 run, stop, listener, canceled, generation, panicked, reader>>

\* ------------------------------------------------------------ the system
Next ==
  \/ \E r \in Runners : RunStep(r)
  \/ \E s \in Stoppers : StopStep(s)
  \/ \E u \in Updaters : UpdaterStep(u)
  \/ ListenerStep
  \/ \E n \in PluginSet : HotUpdate(n)
  \/ Close

Spec == Init /\ [][Next]_vars

\* ------------------------------------------- master/slave reader, its steps
\* line 45: tee.Read(p) with len(p) = size returns n bytes of the input, and
\* io.EOF at the end of it (with the last bytes or after them)
MasterRead45(size, n, eof) ==
  /\ reader.pc = "idle" /\ ~reader.masterEOF
  /\ n \in 0..Min(size, Len(reader.r))
  /\ n = 0 <=> reader.r = <<>>
  /\ eof => n = Len(reader.r)
  /\ reader.r = <<>> => eof
  /\ reader' = [reader EXCEPT !.r = SubSeq(@, n + 1, Len(@)),
                               !.buff = SubSeq(reader.r, 1, n),
                               !.err = IF eof THEN "EOF" ELSE "nil",
                               !.pc = IF n # 0 THEN "L48" ELSE "L51"]
  /\ UNCHANGED pipelineVars

\* line 48: mr.buffChan <- buff.Bytes(), blocking while the channel is full
MasterRead48 ==
  /\ reader.pc = "L48"
  /\ Len(reader.buffChan) < BuffChanCap
  /\ reader' = [reader EXCEPT !.buffChan = Append(@, reader.buff), !.pc = "L51"]
  /\ UNCHANGED pipelineVars

\* lines 51-55: close(mr.buffChan) on io.EOF; return n, err
MasterRead51 ==
  /\ reader.pc = "L51"
  /\ reader' = [reader EXCEPT !.chanClosed = (reader.err = "EOF"),
                               !.masterEOF = (reader.err = "EOF"),
                               !.masterOut = @ \o reader.buff,
                               !.buff = <<>>, !.err = "nil", !.pc = "idle"]
  /\ UNCHANGED pipelineVars

\* line 70: the chunk goes through unreadBuff
UsesUnreadBuff(unread, size, buff) == Len(unread) > 0 \/ size < Len(buff)

\* lines 58-78: slaveReader.Read(p) with len(p) = size
SlaveRead(size) ==
  /\ ~reader.slaveEOF
  /\ reader.buffChan # <<>> \/ reader.chanClosed
  /\ IF reader.buffChan = <<>>
     THEN reader' = [reader EXCEPT !.slaveEOF = TRUE]
     ELSE LET buff == Head(reader.buffChan)
              all == reader.unreadBuff \o buff
              n == Min(size, Len(all)) IN
          IF UsesUnreadBuff(reader.unreadBuff, size, buff)
          THEN reader' = [reader EXCEPT !.buffChan = Tail(@),
                                        !.unreadBuff = SubSeq(all, n + 1, Len(all)),
                                        !.slaveOut = @ \o SubSeq(all, 1, n)]
          ELSE reader' = [reader EXCEPT !.buffChan = Tail(@),
                                        !.slaveOut = @ \o buff]
  /\ UNCHANGED pipelineVars

ReaderInit ==
  /\ PipelineInit
  /\ \E n \in 0..MaxInput : reader = newMasterSlaveReader(Input(n))

ReaderNext ==
  \/ \E size \in 1..MaxRead, n \in 0..MaxRead, eof \in BOOLEAN :
       MasterRead45(size, n, eof)
  \/ MasterRead48
  \/ MasterRead51
  \/ \E size \in 1..MaxRead : SlaveRead(size)

ReaderSpec == ReaderInit /\ [][ReaderNext]_vars

\* ------------------------------------------------------------- properties
\* A Run call is in flight from its successful CompareAndSwap of started
\* (line 113) to its store of 0 (line 190).
RunsInFlight == {r \in Runners : InFlight(r)}

\* C1: at most one Run call is in flight at any time, and a Run call whose
\* CompareAndSwap of line 113 is executed while another Run call is in flight
\* returns "pipeline is already started" without creating a task (no task in
\* its frame, no stop wrapper stored) and without touching the plugin slots.
C1_SingleRunInFlight ==
  /\ [](Cardinality(RunsInFlight) <= 1)
  /\ [][\A r \in Runners :
          (Run113(r) /\ \E q \in Runners \ {r} : InFlight(q))
            => /\ run'[r].pc = "idle"
               /\ run'[r].ret = "pipeline is already started"
               /\ run'[r].task = NoTask
               /\ UNCHANGED <<started, slotVars>>]_vars

\* a Run call was turned away while another one is inside a plugin
C1_Witness ==
  \E r \in Runners, q \in Runners :
    /\ r # q
    /\ run[q].pc = "L270"
    /\ run[r].pc = "idle"
    /\ run[r].ret = "pipeline is already started"

StatChansEmpty ==
  /\ pipelineAndTaskStatChan = <<>>
  /\ pluginStatChan = <<>>
  /\ \A u \in Updaters : outstanding[u] = 0

NothingEnqueued ==
  /\ Len(pipelineAndTaskStatChan') <= Len(pipelineAndTaskStatChan)
  /\ Len(pluginStatChan') <= Len(pluginStatChan)

\* C2: once the Stop call that changed stopped from 0 to 1 has returned, both
\* statistics channels are empty, every enqueued record has reached its sink,
\* both updaters have exited, and no record is enqueued afterwards.  (A Stop
\* call that loses the CompareAndSwap of line 209 returns at once and is left
\* out: this is the claim for the one Stop call that performs the stop.)
C2_StopDrains ==
  /\ []((\E s \in Stoppers : stop[s].won /\ stop[s].pc = "returned")
          => (StatChansEmpty /\ \A u \in Updaters : updater[u] = "exited"))
  /\ [][(\E s \in Stoppers : stop[s].won /\ stop[s].pc = "returned")
          => NothingEnqueued]_vars

\* The steps that the scheduler and the stated assumptions guarantee: every
\* step of a call in progress, of the updaters and of the listener, where a
\* source plugin's Run is only known to return once its task is canceled.
\* New calls, hot updates and registry failures are the environment's choice.
Canceled(t) ==
  t.err \in {CancelReason("stop"), CancelReason("schedule"), CancelReason("rerun")}

Progress ==
  \/ \E r \in Runners :
       /\ RunStep(r)
       /\ events' = events
       /\ (run[r].pc = "L270" /\ run[r].pluginType = "Source")
            => Canceled(run[r].task)
  \/ \E s \in Stoppers : StopStep(s) /\ events' = events
  \/ \E u \in Updaters : UpdaterStep(u)
  \/ ListenerStep

\* C3: Stop eventually returns; so while a Stop call is in progress (and the
\* process has not panicked) some guaranteed step is always possible.
C3_StopNotBlocked ==
  (~panicked /\ \E s \in Stoppers : stop[s].pc \notin {"idle", "returned"})
    => ENABLED Progress

\* C4: done is closed at most once: no Run call executes close(p.done) of
\* line 193 on a channel that is closed already.
C4_DoneClosedOnce == \A r \in Runners : run[r].pc # "panic193"

\* C5: stopped never goes back from 1 to 0, and a Run call that begins when
\* stopped is 1 returns nil at once: no task, no plugin slot, started, the
\* statistics channels and done all unchanged.
C5_StoppedIsFinal ==
  /\ [][stopped = 1 => stopped' = 1]_vars
  /\ [][\A r \in Runners :
          (stopped = 1 /\ Run109(r))
            => /\ run'[r].pc = "idle"
               /\ run'[r].ret = "nil"
               /\ run'[r].task = NoTask
               /\ UNCHANGED <<started, stopped, slotVars, statVars, done>>]_vars

\* a Run call returned nil although no Run call ever created a task
C5_Witness ==
  /\ stopped = 1
  /\ stopCancel = NoOpCancelFunc
  /\ \E r \in Runners : run[r].pc = "idle" /\ run[r].ret = "nil"

\* C6: when Stop sets stopped to 1 while a plugin's Run is executing, no
\* per-plugin record is offered for that invocation, no pipeline/task record
\* for that task, no later plugin is fetched or invoked, the task is finished
\* after line 175, and the Run call closes done (its close does not panic).
C6_StopDuringPlugin ==
  \A r \in Runners :
    run[r].stopHit =>
      /\ run[r].stat = "none"
      /\ run[r].pipeStat = "none"
      /\ run[r].pc \notin {"L128", "L134", "L246"}
      /\ run[r].pc \in {"L185", "L190", "L192"} => run[r].task.status = "Finished"
      /\ run[r].pc = "L192" => stopped = 1
      /\ run[r].pc # "panic193"

\* C7: with no Stop, a record is offered for a plugin invocation exactly when
\* runPlugin returns rerun = false and preempted = false, and one
\* pipeline/task record is offered for the task.
C7_OneRecordPerInvocation ==
  \A r \in Runners :
    stopped = 0 =>
      /\ run[r].pc = "L314" =>
           ((run[r].stat # "none") <=> (~run[r].rpRerun /\ ~run[r].rpPreempted))
      /\ run[r].pc = "L190" => run[r].pipeStat # "none"

\* C8: an invocation that ends in a rerun (a plugin error with rerun = true at
\* the return of runPlugin) has no per-plugin record enqueued for it.
C8_RerunNotRecorded ==
  \A r \in Runners :
    (run[r].pc = "L314" /\ run[r].err # "nil" /\ run[r].rpRerun)
      => run[r].stat # "enqueued"

\* C9: within one task the index passed to runPlugin never decreases, and an
\* index is passed a second time only right after an invocation of that index
\* returned success = false and rerun = true.
C9_ConfiguredOrder ==
  \A r \in Runners :
    run[r].pc = "L246" =>
      /\ run[r].lastIdx <= run[r].i
      /\ run[r].lastIdx = run[r].i => run[r].lastRet = "rerun"

\* the same index is entered again after a rerun
C9_Witness ==
  \E r \in Runners :
    /\ run[r].pc = "L246"
    /\ run[r].lastIdx = run[r].i
    /\ run[r].lastRet = "rerun"

\* C10: the notice (P, G) sets the rerun flag only of a run of plugin P whose
\* generation is at most G.
C10_NoticeHitsItsPlugin ==
  \A r \in Runners :
    (/\ listener.pc = "cancel"
     /\ run[r].pc \in InRunPluginPcs
     /\ run[r].inv = listener.f.inv
     /\ run[r].rpRerun)
      => /\ run[r].instance = listener.plugin
         /\ run[r].gen <= listener.instanceGeneration

\* C11: once a hot-update rerun-cancel has fired inside plugin P's Run on task
\* T, the driver goes nowhere but back to runPlugin at the same index, and it
\* enters it with T's error cleared and T's result code equal to the code T
\* had before the canceled run: T neither proceeds to the second dispatch
\* (a later plugin) nor finishes with that attempt behind it.
C11_RerunRestoresTask ==
  \A r \in Runners :
    run[r].rerunHit =>
      /\ run[r].pc \in InRunPluginPcs \cup {"L126", "L128", "L134", "L246"}
      /\ run[r].pc = "L246" =>
           /\ run[r].i = run[r].lastIdx
           /\ run[r].task.err = "nil"
           /\ run[r].task.code = run[r].originalCode

\* C12: a runPlugin call for a plugin that is not a source never has its
\* preempted flag set and its task never carries CanceledByPipelinePreempted,
\* whatever Stop(scheduled = true) does meanwhile.
C12_NonSourceNotPreempted ==
  \A r \in Runners :
    (run[r].pc \in InRunPluginPcs /\ run[r].pluginType = "NonSource")
      => /\ ~run[r].rpPreempted
         /\ run[r].task.err # CancelReason("schedule")

\* Stop(scheduled = true) has set stopped and is about to call scheduleCancel
\* while a non-source plugin is inside its Run
C12_Witness ==
  \E r \in Runners, s \in Stoppers :
    /\ run[r].pc = "L270" /\ run[r].pluginType = "NonSource"
    /\ stop[s].pc = "L219" /\ stop[s].scheduled

\* C13: when an iteration of the loop is over (the driver is back at the loop
\* condition, or has left the loop), the use the iteration's getPluginInstance
\* added to the instance has been taken off exactly once: the iteration holds
\* neither one use (never released) nor minus one (released twice).
C13_UseCountBalanced ==
  \A r \in Runners : run[r].pc \in {"L126", "L173"} => run[r].uses = 0

\* C14: outside the span from the publication of the slots to their reset in
\* a runPlugin call the running name is empty, the running generation 0, and
\* rerunCancel and scheduleCancel are the no-op; inside instance.Run the
\* running name and generation are those of the instance; no cancel slot is
\* ever nil.
IsCancelFunc(f) == f.kind \in {"noop", "stop", "schedule", "rerun"}

C14_SlotsAreClean ==
  /\ IsCancelFunc(rerunCancel) /\ IsCancelFunc(stopCancel) /\ IsCancelFunc(scheduleCancel)
  /\ (\A r \in Runners : run[r].pc \notin {"L270", "L273"})
       => /\ runningPluginName = "" /\ runningPluginGeneration = 0
          /\ rerunCancel.kind = "noop" /\ scheduleCancel.kind = "noop"
  /\ \A r \in Runners :
       run[r].pc = "L270" => /\ runningPluginName = run[r].instance
                             /\ runningPluginGeneration = run[r].gen

\* a second plugin run has published its slots after the first one's reset
C14_Witness ==
  \E r \in Runners :
    /\ run[r].pc = "L270" /\ run[r].lastIdx >= 0
    /\ runningPluginName = run[r].instance
    /\ rerunCancel.kind = "rerun"

\* C15: when runPlugin handles a plugin error with rerun and preempted false
\* and stopped = 0, a task without an error gets the plugin's error with code
\* 503, a task with an error keeps it, the instance is dismissed, and the
\* per-plugin record offered for the run has successful = false; a
\* pipeline/task record offered for a task that carries an error has
\* successful = false.
PluginFailed(r) ==
  /\ run[r].err # "nil" /\ ~run[r].rpRerun /\ ~run[r].rpPreempted /\ stopped = 0

C15_PluginErrorHandled ==
  /\ [][\A r \in Runners :
          (RunPlugin294(r) /\ PluginFailed(r))
            => /\ IF run[r].task.err = "nil"
                  THEN run'[r].task.err = run[r].err /\ run'[r].task.code = "503"
                  ELSE run'[r].task = run[r].task
               /\ run'[r].dismissed
               /\ run[r].stat # "none" /\ run[r].statOk = "false"]_vars
  /\ [](\A r \in Runners :
          (run[r].pc = "L190" /\ run[r].pipeStat # "none" /\ run[r].task.err # "nil")
            => run[r].pipeOk = "false")

\* a failed plugin left an earlier error of the task in place, and the task's
\* record says unsuccessful
C15_Witness ==
  \E r \in Runners :
    /\ run[r].pc = "L314" /\ PluginFailed(r)
    /\ run[r].task.err = "EPlugin" /\ run[r].task.code = "400"
    /\ run[r].dismissed /\ run[r].statOk = "false"

C17_StatNeverBlocks ==
  /\ Len(pipelineAndTaskStatChan) <= ChanCap
  /\ Len(pluginStatChan) <= ChanCap
  /\ \A u \in Updaters : outstanding[u] >= 0
  /\ \A r \in Runners :
       /\ (~panicked /\ run[r].pc = "L289") => ENABLED RunPlugin289(r)
       /\ (~panicked /\ run[r].pc = "L185") => ENABLED Run185(r)

\* a record was dropped on a full channel and the driver went on
C17_Witness ==
  \E r \in Runners :
    /\ run[r].stat = "dropped" /\ run[r].pc = "L294"
    /\ Len(pluginStatChan) = ChanCap

\* C18: once the pipeline/task record of a task has been offered, the driver
\* is past the loop, where no per-plugin record of that task is offered; and
\* every per-plugin record is offered while the task's record is not.
C18_PipelineRecordLast ==
  /\ [](\A r \in Runners :
          run[r].pipeStat # "none" => run[r].pc \in {"L190", "L192", "panic193"})
  /\ [][\A r \in Runners :
          (RunPlugin289(r) /\ run[r].data) => run[r].pipeStat = "none"]_vars

\* a task's record has been offered after a per-plugin record of that task
C18_Witness ==
  \E r \in Runners :
    /\ run[r].pc = "L190" /\ run[r].pipeStat = "enqueued"
    /\ run[r].lastIdx >= 0 /\ run[r].task.err = "nil"

\* C19: after Close (called once the Stop call that stopped the pipeline has
\* returned) both updaters have exited, and no Run call sends on a closed
\* statistics channel or closes done again.
C19_CloseAfterStop ==
  closed =>
    /\ \A u \in Updaters : updater[u] = "exited"
    /\ \A r \in Runners : run[r].pc \notin {"panic185", "panic289", "panic193"}

\* C20: when slaveReader.Read has returned io.EOF, the bytes it returned
\* before are the bytes masterReader.Read returned, in order, none lost and
\* none twice.
C20_SlaveReadsWhatMasterRead ==
  reader.slaveEOF => reader.slaveOut = reader.masterOut

====
